---- MODULE Spec2Model ----
(***************************************************************************)
(* Model of the four puzzle scripts under benchmarks/aoc:                  *)
(*   day1.py        landing-only dial counter                              *)
(*   day1_part2.py  crossing dial counter                                  *)
(*   day2_part1.py  seed-expansion invalid-ID scanner                      *)
(*   day2_part2.py  repeated-pattern invalid-ID scanner                    *)
(* Text is modelled as sequences of one-character strings.                 *)
(***************************************************************************)
EXTENDS Integers, Sequences, FiniteSets, TLC

VARIABLES
    input,      \* day1*: the raw lines of the input file
    idxA,       \* day1.py: number of lines the for-loop has consumed
    posA,       \* day1.py: pos
    hitsA,      \* day1.py: hits
    stA,        \* day1.py: "running" | "returned" | "raised"
    outA,       \* day1.py: integers printed on stdout by main
    idxB,       \* day1_part2.py: number of lines consumed
    posB,       \* day1_part2.py: pos
    hitsB,      \* day1_part2.py: hits
    stB,        \* day1_part2.py: "running" | "returned" | "raised"
    outB,       \* day1_part2.py: integers printed on stdout by main
    cmdDir,     \* move harness: direction of the command being turned
    simSteps,   \* move harness: unit steps turned for that command
    simPos,     \* unit-step reference dial: position
    simHits,    \* unit-step reference dial: zero landings seen
    tokens,     \* day2*: the start-end tokens of the input, as integer pairs
    pc1,        \* day2_part1.py: "parse" | "scan" | "returned"
    ranges1,    \* day2_part1.py: ranges
    max_end,    \* day2_part1.py: max_end
    seed,       \* day2_part1.py: loop variable of the seed loop
    total1,     \* day2_part1.py: total
    out1,       \* day2_part1.py: integers printed on stdout by main
    pc2,        \* day2_part2.py: "parse" | "scan" | "returned"
    ranges2,    \* day2_part2.py: ranges
    rangeIdx,   \* day2_part2.py: ranges the outer loop has finished
    total2,     \* day2_part2.py: total
    out2,       \* day2_part2.py: integers printed on stdout by main
    value,      \* is_invalid_id harness: the argument
    verdict     \* is_invalid_id harness: "pending" | "invalid" | "valid"

dialA == <<idxA, posA, hitsA, stA, outA>>
dialB == <<idxB, posB, hitsB, stB, outB>>
simVars == <<cmdDir, simSteps, simPos, simHits>>
part1Vars == <<pc1, ranges1, max_end, seed, total1, out1>>
part2Vars == <<pc2, ranges2, rangeIdx, total2, out2>>
valueVars == <<value, verdict>>
dialVars == <<input, dialA, dialB, simVars>>
idVars == <<tokens, part1Vars, part2Vars, valueVars>>

vars == <<dialVars, idVars>>

----------------------------------------------------------------------------
(* Bounds *)

MaxLines == 3       \* lines in an input file
MaxDist == 320      \* largest magnitude of the move harness
MaxMoves == 2       \* commands of the move harness

(* Program constants *)

DialSize == 100
StartPos == 50

----------------------------------------------------------------------------
(* Text helpers: str.strip() and int() *)

Whitespace == {" ", "\n"}

Digit == {"0", "1", "2", "3", "4", "5", "6", "7", "8", "9"}

DigitVal(c) ==
    CASE c = "0" -> 0 [] c = "1" -> 1 [] c = "2" -> 2 [] c = "3" -> 3
      [] c = "4" -> 4 [] c = "5" -> 5 [] c = "6" -> 6 [] c = "7" -> 7
      [] c = "8" -> 8 [] c = "9" -> 9

RECURSIVE lstrip(_)
lstrip(s) ==
    IF s # <<>> /\ Head(s) \in Whitespace THEN lstrip(Tail(s)) ELSE s

RECURSIVE rstrip(_)
rstrip(s) ==
    IF s # <<>> /\ s[Len(s)] \in Whitespace
    THEN rstrip(SubSeq(s, 1, Len(s) - 1))
    ELSE s

strip(s) == rstrip(lstrip(s))

RECURSIVE DigitsValue(_)
DigitsValue(s) ==
    IF s = <<>> THEN 0
    ELSE 10 * DigitsValue(SubSeq(s, 1, Len(s) - 1)) + DigitVal(s[Len(s)])

\* int(text): surrounding whitespace is dropped, one optional sign, then at
\* least one digit and nothing else; anything else raises ValueError.
\* an int() that reads a text without digits as 0
PyIntEmptyIsZero(text) ==
    LET t == strip(text)
        signed == t # <<>> /\ Head(t) \in {"+", "-"}
        body == IF signed THEN Tail(t) ELSE t
        ok == \A i \in 1..Len(body) : body[i] \in Digit
    IN  [ok |-> ok,
         val |-> IF ~ok THEN 0
                 ELSE IF signed /\ Head(t) = "-" THEN 0 - DigitsValue(body)
                 ELSE DigitsValue(body)]

py_int(text) ==
    LET t == strip(text)
        signed == t # <<>> /\ Head(t) \in {"+", "-"}
        body == IF signed THEN Tail(t) ELSE t
        ok == body # <<>> /\ \A i \in 1..Len(body) : body[i] \in Digit
    IN  [ok |-> ok,
         val |-> IF ~ok THEN 0
                 ELSE IF signed /\ Head(t) = "-" THEN 0 - DigitsValue(body)
                 ELSE DigitsValue(body)]

\* the remainder of a division that truncates toward zero
TruncMod(a, b) == IF a >= 0 THEN a % b ELSE 0 - ((0 - a) % b)

\* Python's %: with a positive modulus the result is never negative
py_mod(a, b) == a % b

----------------------------------------------------------------------------
(* day1.py *)

\* a loop body that tests the position before the move
Day1HitBeforeMove(pos, hits, direction, dist) ==
    [pos |-> IF direction = "L" THEN py_mod(pos - dist, DialSize)
             ELSE py_mod(pos + dist, DialSize),
     hits |-> IF pos = 0 THEN hits + 1 ELSE hits]

\* lines 16-23 for a direction in {"L","R"}: move, then count a landing on 0
day1_rotate(pos, hits, direction, dist) ==
    LET p == IF direction = "L" THEN py_mod(pos - dist, DialSize)
             ELSE py_mod(pos + dist, DialSize)
    IN  [pos |-> p, hits |-> IF p = 0 THEN hits + 1 ELSE hits]

\* one iteration of the for-loop of solve
Day1Line ==
    /\ stA = "running"
    /\ idxA < Len(input)
    /\ idxA' = idxA + 1
    /\ LET line == strip(input[idxA + 1]) IN
       IF line = <<>>
       THEN UNCHANGED <<posA, hitsA, stA>>
       ELSE LET direction == Head(line)
                dist == py_int(Tail(line))
            IN  IF ~dist.ok \/ direction \notin {"L", "R"}
                THEN /\ stA' = "raised"
                     /\ UNCHANGED <<posA, hitsA>>
                ELSE LET r == day1_rotate(posA, hitsA, direction, dist.val)
                     IN  /\ posA' = r.pos
                         /\ hitsA' = r.hits
                         /\ stA' = stA
    /\ UNCHANGED <<input, outA, dialB, simVars, idVars>>

\* end of file: solve returns hits and main prints it
Day1Return ==
    /\ stA = "running"
    /\ idxA = Len(input)
    /\ stA' = "returned"
    /\ outA' = Append(outA, hitsA)
    /\ UNCHANGED <<input, idxA, posA, hitsA, dialB, simVars, idVars>>

----------------------------------------------------------------------------
(* day1_part2.py *)

\* a count that needs more than first_zero_click steps for the first hit
CountHitsStrict(first_zero_click, distance) ==
    IF distance <= first_zero_click THEN 0
    ELSE 1 + (distance - first_zero_click) \div 100

count_hits_for_rotation(first_zero_click, distance) ==
    IF distance < first_zero_click THEN 0
    ELSE 1 + (distance - first_zero_click) \div 100

count_zeros_right(pos, distance) ==
    LET first_zero_click == IF pos = 0 THEN 100 ELSE 100 - pos
    IN  count_hits_for_rotation(first_zero_click, distance)

count_zeros_left(pos, distance) ==
    LET first_zero_click == IF pos = 0 THEN 100 ELSE pos
    IN  count_hits_for_rotation(first_zero_click, distance)

\* a loop body that counts from the post-move position
Day1Part2CountAfterMove(pos, hits, direction, dist) ==
    IF direction = "L"
    THEN [hits |-> hits + count_zeros_left(py_mod(pos - dist, DialSize), dist),
          pos |-> py_mod(pos - dist, DialSize)]
    ELSE [hits |-> hits + count_zeros_right(py_mod(pos + dist, DialSize), dist),
          pos |-> py_mod(pos + dist, DialSize)]

\* lines 32-37 for a direction in {"L","R"}: count from the pre-move
\* position, then move
day1_part2_rotate(pos, hits, direction, dist) ==
    IF direction = "L"
    THEN [hits |-> hits + count_zeros_left(pos, dist),
          pos |-> py_mod(pos - dist, DialSize)]
    ELSE [hits |-> hits + count_zeros_right(pos, dist),
          pos |-> py_mod(pos + dist, DialSize)]

Day1Part2Line ==
    /\ stB = "running"
    /\ idxB < Len(input)
    /\ idxB' = idxB + 1
    /\ LET line == strip(input[idxB + 1]) IN
       IF line = <<>>
       THEN UNCHANGED <<posB, hitsB, stB>>
       ELSE LET direction == Head(line)
                dist == py_int(Tail(line))
            IN  IF ~dist.ok \/ direction \notin {"L", "R"}
                THEN /\ stB' = "raised"
                     /\ UNCHANGED <<posB, hitsB>>
                ELSE LET r == day1_part2_rotate(posB, hitsB, direction, dist.val)
                     IN  /\ posB' = r.pos
                         /\ hitsB' = r.hits
                         /\ stB' = stB
    /\ UNCHANGED <<input, outB, dialA, simVars, idVars>>

Day1Part2Return ==
    /\ stB = "running"
    /\ idxB = Len(input)
    /\ stB' = "returned"
    /\ outB' = Append(outB, hitsB)
    /\ UNCHANGED <<input, idxB, posB, hitsB, dialA, simVars, idVars>>

----------------------------------------------------------------------------
(* day2_part1.py *)

RECURSIVE digits_count(_)
digits_count(n) == IF n >= 10 THEN 1 + digits_count(n \div 10) ELSE 1

invalid_from_seed(s) ==
    LET base == 10 ^ digits_count(s)
    IN  s * (base + 1)

seed_limit_for_max_id(max_id) ==
    LET max_digits == digits_count(max_id)
        seed_digits == (max_digits + 1) \div 2
    IN  10 ^ seed_digits

\* a range loop without the break
AddPerMatchingRange(candidate, rs) ==
    candidate * Cardinality({ i \in 1..Len(rs) :
                                rs[i][1] <= candidate /\ candidate <= rs[i][2] })

\* lines 42-45: the amount one candidate adds to total; the break leaves
\* the range loop at the first range that contains the candidate
add_if_in_range(candidate, rs) ==
    IF \E i \in 1..Len(rs) : rs[i][1] <= candidate /\ candidate <= rs[i][2]
    THEN candidate
    ELSE 0

\* lines 28-37 for one token
Day2Part1Token ==
    /\ pc1 = "parse"
    /\ Len(ranges1) < Len(tokens)
    /\ LET t == tokens[Len(ranges1) + 1] IN
         /\ ranges1' = Append(ranges1, t)
         /\ max_end' = IF t[2] > max_end THEN t[2] ELSE max_end
    /\ UNCHANGED <<pc1, seed, total1, out1>>
    /\ UNCHANGED <<dialVars, tokens, part2Vars, valueVars>>

Day2Part1Parsed ==
    /\ pc1 = "parse"
    /\ Len(ranges1) = Len(tokens)
    /\ pc1' = "scan"
    /\ seed' = 1
    /\ total1' = 0
    /\ UNCHANGED <<ranges1, max_end, out1>>
    /\ UNCHANGED <<dialVars, tokens, part2Vars, valueVars>>

\* lines 40-45 for one seed
Day2Part1Seed ==
    /\ pc1 = "scan"
    /\ seed < seed_limit_for_max_id(max_end)
    /\ total1' = total1 + add_if_in_range(invalid_from_seed(seed), ranges1)
    /\ seed' = seed + 1
    /\ UNCHANGED <<pc1, ranges1, max_end, out1>>
    /\ UNCHANGED <<dialVars, tokens, part2Vars, valueVars>>

Day2Part1Return ==
    /\ pc1 = "scan"
    /\ seed >= seed_limit_for_max_id(max_end)
    /\ pc1' = "returned"
    /\ out1' = Append(out1, total1)
    /\ UNCHANGED <<ranges1, max_end, seed, total1>>
    /\ UNCHANGED <<dialVars, tokens, part2Vars, valueVars>>

----------------------------------------------------------------------------
(* day2_part2.py *)

RECURSIVE part2_digits_count(_)
part2_digits_count(n) == IF n >= 10 THEN 1 + part2_digits_count(n \div 10) ELSE 1

RECURSIVE repeat_value(_, _, _)
repeat_value(s, base, times) ==
    IF times <= 0 THEN 0
    ELSE repeat_value(s, base, times - 1) * base + s

\* a seed cut off by chunk_len digits instead of total_len - chunk_len
LeadingSeedShort(v, total_len, chunk_len) == v \div (10 ^ chunk_len)

\* line 27
leading_seed(v, total_len, chunk_len) == v \div (10 ^ (total_len - chunk_len))

has_repeated_pattern_len(v, total_len, chunk_len) ==
    IF total_len % chunk_len # 0 THEN FALSE
    ELSE LET repeats == total_len \div chunk_len IN
         IF repeats < 2 THEN FALSE
         ELSE LET base == 10 ^ chunk_len
                  s == leading_seed(v, total_len, chunk_len)
              IN  repeat_value(s, base, repeats) = v

\* a chunk loop that stops one short of total_len // 2
IsInvalidIdBelowHalf(v) ==
    LET total_len == part2_digits_count(v)
    IN  \E chunk_len \in 1..(total_len \div 2 - 1) :
            has_repeated_pattern_len(v, total_len, chunk_len)

\* a test for two repeats only
IsInvalidIdPairsOnly(v) ==
    LET total_len == part2_digits_count(v)
    IN  /\ total_len % 2 = 0
        /\ has_repeated_pattern_len(v, total_len, total_len \div 2)

\* the loop returns True at the first chunk length that matches
is_invalid_id(v) ==
    LET total_len == part2_digits_count(v)
    IN  \E chunk_len \in 1..(total_len \div 2) :
            has_repeated_pattern_len(v, total_len, chunk_len)

RECURSIVE SetSum(_)
SetSum(S) ==
    IF S = {} THEN 0
    ELSE LET x == CHOOSE y \in S : TRUE IN x + SetSum(S \ {x})

\* lines 54-56 for one range: the sum of its invalid values
sum_invalid(start, end) == SetSum({ v \in start..end : is_invalid_id(v) })

Day2Part2Token ==
    /\ pc2 = "parse"
    /\ Len(ranges2) < Len(tokens)
    /\ ranges2' = Append(ranges2, tokens[Len(ranges2) + 1])
    /\ UNCHANGED <<pc2, rangeIdx, total2, out2>>
    /\ UNCHANGED <<dialVars, tokens, part1Vars, valueVars>>

Day2Part2Parsed ==
    /\ pc2 = "parse"
    /\ Len(ranges2) = Len(tokens)
    /\ pc2' = "scan"
    /\ total2' = 0
    /\ UNCHANGED <<ranges2, rangeIdx, out2>>
    /\ UNCHANGED <<dialVars, tokens, part1Vars, valueVars>>

\* lines 53-56 for one range
Day2Part2Range ==
    /\ pc2 = "scan"
    /\ rangeIdx < Len(ranges2)
    /\ LET r == ranges2[rangeIdx + 1]
       IN  total2' = total2 + sum_invalid(r[1], r[2])
    /\ rangeIdx' = rangeIdx + 1
    /\ UNCHANGED <<pc2, ranges2, out2>>
    /\ UNCHANGED <<dialVars, tokens, part1Vars, valueVars>>

Day2Part2Return ==
    /\ pc2 = "scan"
    /\ rangeIdx = Len(ranges2)
    /\ pc2' = "returned"
    /\ out2' = Append(out2, total2)
    /\ UNCHANGED <<ranges2, rangeIdx, total2>>
    /\ UNCHANGED <<dialVars, tokens, part1Vars, valueVars>>

\* is_invalid_id applied to one value
Classify ==
    /\ verdict = "pending"
    /\ pc1 = "idle"
    /\ verdict' = IF is_invalid_id(value) THEN "invalid" ELSE "valid"
    /\ UNCHANGED <<dialVars, tokens, part1Vars, part2Vars, value>>

----------------------------------------------------------------------------
(* Input files of the dial scripts *)

Texts ==
    { <<>>,                       \* empty line
      <<" ", " ">>,               \* whitespace only
      <<"L", "1", "0">>,
      <<"L", "6", "0">>,
      <<"R", "5", "0">>,
      <<"R", "0">>,
      <<"R", "1", "5", "0">>,
      <<"L", "-", "5">>,          \* negative magnitude
      <<"L">>,                    \* missing magnitude
      <<"X", "5">>,               \* bad direction
      <<"R", "5", "a">> }         \* non-integer magnitude

Lines == { t \o <<"\n">> : t \in Texts }

Files == UNION { [1..n -> Lines] : n \in 0..MaxLines }

\* both dial scripts at the top of solve
DialStart ==
    /\ idxA = 0 /\ posA = StartPos /\ hitsA = 0 /\ stA = "running" /\ outA = <<>>
    /\ idxB = 0 /\ posB = StartPos /\ hitsB = 0 /\ stB = "running" /\ outB = <<>>

SimStart == simSteps = 0 /\ simPos = StartPos /\ simHits = 0

\* both scanner scripts at the top of solve
ScanStart ==
    /\ pc1 = "parse" /\ ranges1 = <<>> /\ max_end = 0
    /\ seed = 1 /\ total1 = 0 /\ out1 = <<>>
    /\ pc2 = "parse" /\ ranges2 = <<>> /\ rangeIdx = 0
    /\ total2 = 0 /\ out2 = <<>>

Init ==
    /\ input \in Files
    /\ DialStart
    /\ cmdDir = "R" /\ SimStart
    /\ tokens = <<>> /\ ScanStart
    /\ value = 0 /\ verdict = "pending"

Next ==
    \/ Day1Line
    \/ Day1Return
    \/ Day1Part2Line
    \/ Day1Part2Return

Spec == Init /\ [][Next]_vars

----------------------------------------------------------------------------
(* Move harness: the loop body of day1_part2's solve on parsed commands,   *)
(* next to a reference dial that is turned one unit at a time.  The        *)
(* reference turns simSteps units in direction cmdDir; Apply then hands    *)
(* the command (cmdDir, simSteps) to the loop body.                        *)

\* the reference dial is turned by one unit and a landing on 0 is counted
Turn(direction) ==
    /\ idxB < MaxMoves
    /\ simSteps < MaxDist
    /\ simSteps = 0 \/ cmdDir = direction
    /\ cmdDir' = direction
    /\ simSteps' = simSteps + 1
    /\ simPos' = (IF direction = "L" THEN simPos - 1 ELSE simPos + 1) % DialSize
    /\ simHits' = IF simPos' = 0 THEN simHits + 1 ELSE simHits
    /\ UNCHANGED <<input, dialA, dialB, idVars>>

TurnLeft == Turn("L")

TurnRight == Turn("R")

\* lines 32-37 of day1_part2.py on the command (cmdDir, simSteps)
Apply ==
    /\ idxB < MaxMoves
    /\ idxB' = idxB + 1
    /\ LET r == day1_part2_rotate(posB, hitsB, cmdDir, simSteps)
       IN  /\ posB' = r.pos
           /\ hitsB' = r.hits
    /\ simSteps' = 0
    /\ UNCHANGED <<input, dialA, stB, outB, cmdDir, simPos, simHits, idVars>>

MoveInit ==
    /\ input = <<>>
    /\ DialStart
    /\ cmdDir \in {"L", "R"} /\ SimStart
    /\ tokens = <<>> /\ ScanStart
    /\ value = 0 /\ verdict = "pending"

MoveNext == TurnLeft \/ TurnRight \/ Apply

MoveSpec == MoveInit /\ [][MoveNext]_vars

----------------------------------------------------------------------------
(* Inputs of the scanner scripts *)

MaxRanges == 2      \* tokens in an input
MaxValue == 12500   \* largest value handed to is_invalid_id directly

RangePool ==
    { <<11, 99>>,           \* exactly the doubled one-digit seeds
      <<95, 115>>,          \* overlaps the first at 99; holds 111
      <<998, 1012>>,        \* crosses a digit-count boundary; holds 999, 1010
      <<1105, 1111>>,       \* 1111 repeats with chunk lengths 1 and 2
      <<1208, 1215>>,       \* 1212 next to 1213
      <<9990, 9999>>,       \* the largest doubled two-digit seed
      <<0, 9>>,             \* single digits only
      <<7, 5>> }            \* inverted

TokenLists == UNION { [1..n -> RangePool] : n \in 0..MaxRanges }

Values == 0..MaxValue \cup {100100, 101010, 111111, 121212, 123123, 123124}

ScanInit ==
    /\ input = <<>> /\ DialStart
    /\ cmdDir = "R" /\ SimStart
    /\ \/ /\ tokens \in TokenLists
          /\ ScanStart
          /\ value = 0 /\ verdict = "pending"
       \/ /\ tokens = <<>>
          /\ pc1 = "idle" /\ ranges1 = <<>> /\ max_end = 0
          /\ seed = 1 /\ total1 = 0 /\ out1 = <<>>
          /\ pc2 = "idle" /\ ranges2 = <<>> /\ rangeIdx = 0
          /\ total2 = 0 /\ out2 = <<>>
          /\ value \in Values /\ verdict = "pending"

ScanNext ==
    \/ Day2Part1Token
    \/ Day2Part1Parsed
    \/ Day2Part1Seed
    \/ Day2Part1Return
    \/ Day2Part2Token
    \/ Day2Part2Parsed
    \/ Day2Part2Range
    \/ Day2Part2Return
    \/ Classify

ScanSpec == ScanInit /\ [][ScanNext]_vars

----------------------------------------------------------------------------
(* Vocabulary of the dial properties, read off the input file *)

IsBlank(raw) == \A i \in 1..Len(raw) : raw[i] \in Whitespace

\* an optional sign followed by one or more decimal digits, possibly with
\* whitespace around it
IsIntegerText(t) ==
    LET u == strip(t) IN
    \E k \in 0..1 :
        /\ Len(u) > k
        /\ k = 1 => u[1] \in {"+", "-"}
        /\ \A i \in (k + 1)..Len(u) : u[i] \in Digit

IsMalformed(raw) ==
    /\ ~IsBlank(raw)
    /\ LET l == strip(raw)
       IN  l[1] \notin {"L", "R"} \/ ~IsIntegerText(Tail(l))

HasMalformedLine == \E i \in 1..Len(input) : IsMalformed(input[i])

\* the signed turn of a line that the loop applies: right is positive
Magnitude(raw) == py_int(Tail(strip(raw))).val

SignedTurn(raw) ==
    IF IsBlank(raw) THEN 0
    ELSE IF Head(strip(raw)) = "L" THEN 0 - Magnitude(raw)
    ELSE Magnitude(raw)

\* number of leading lines whose effect is in pos and hits
DoneA == IF stA = "raised" THEN idxA - 1 ELSE idxA

DoneB == IF stB = "raised" THEN idxB - 1 ELSE idxB

Commands(n) == { i \in 1..n : ~IsBlank(input[i]) }

RECURSIVE NetTurn(_)
NetTurn(n) == IF n = 0 THEN 0 ELSE NetTurn(n - 1) + SignedTurn(input[n])

\* r is the residue modulo 100 of the start position plus the net turn
IsDialResidue(r, n) ==
    /\ r \in 0..(DialSize - 1)
    /\ (StartPos + NetTurn(n) - r) % DialSize = 0

LandsOnZero(i) == IsDialResidue(0, i)

----------------------------------------------------------------------------
(* C1 *)

ClosedForm ==
    IF cmdDir = "L" THEN count_zeros_left(posB, simSteps)
    ELSE count_zeros_right(posB, simSteps)

\* C1: for every pre-move position, direction and magnitude d >= 0 the
\* closed-form count of the crossing variant equals the number of zero
\* landings of d unit steps, and after every command of every sequence the
\* total of the crossing variant equals the total of the unit-step dial.
C1_ClosedFormEqualsUnitSteps ==
    /\ simHits = hitsB + ClosedForm
    /\ simSteps = 0 => simPos = posB /\ simHits = hitsB

\* second command: two full turns to the left from position 0
C1_Witness ==
    /\ idxB = 1 /\ posB = 0 /\ hitsB = 1
    /\ cmdDir = "L" /\ simSteps = 200 /\ simHits = 3

----------------------------------------------------------------------------
(* C2 *)

\* C2: in both variants the position starts at 50 and after every applied
\* command is the residue in [0,100) of 50 plus the right turns minus the
\* left turns applied so far.
C2_PositionInDial ==
    /\ idxA = 0 => posA = StartPos
    /\ idxB = 0 => posB = StartPos
    /\ IsDialResidue(posA, DoneA)
    /\ IsDialResidue(posB, DoneB)

\* a left turn below zero (50 - 60) and a negative magnitude both wrapped
C2_Witness ==
    /\ Len(input) >= 2
    /\ strip(input[1]) = <<"L", "6", "0">>
    /\ strip(input[2]) = <<"L", "-", "5">>
    /\ idxA = 2 /\ idxB = 2
    /\ posA = 95 /\ posB = 95

----------------------------------------------------------------------------
(* C3 *)

C3_Total ==
    /\ hitsA = Cardinality({ i \in Commands(DoneA) : LandsOnZero(i) })
    /\ stA = "returned" => outA = <<hitsA>>

C3_Step ==
    /\ hitsA' \in {hitsA, hitsA + 1}
    /\ hitsA' = hitsA + 1 <=>
          /\ idxA' = idxA + 1
          /\ stA' = "running"
          /\ ~IsBlank(input[idxA + 1])
          /\ posA' = 0

\* C3: the landing-only hit count grows by exactly one on a command whose
\* post-move position is 0 and is unchanged by every other step, so it
\* equals the number of applied commands that ended on 0, and that number
\* is what is returned.
C3_LandingCount == []C3_Total /\ [][C3_Step]_vars

\* R50 then R0: both commands end on 0, the blank line after them does not
C3_Witness ==
    /\ Len(input) = 3
    /\ strip(input[1]) = <<"R", "5", "0">>
    /\ strip(input[2]) = <<"R", "0">>
    /\ IsBlank(input[3])
    /\ stA = "returned" /\ posA = 0 /\ outA = <<2>>

----------------------------------------------------------------------------
(* C6 *)

C6_Fatal ==
    /\ HasMalformedLine => outA = <<>> /\ outB = <<>>
    /\ HasMalformedLine /\ stA # "running" => stA = "raised"
    /\ HasMalformedLine /\ stB # "running" => stB = "raised"
    /\ stA = "raised" => IsMalformed(input[idxA])
    /\ stB = "raised" => IsMalformed(input[idxB])

C6_BlankSkipped ==
    /\ idxA' = idxA + 1 /\ IsBlank(input[idxA + 1])
         => UNCHANGED <<posA, hitsA, stA, outA>>
    /\ idxB' = idxB + 1 /\ IsBlank(input[idxB + 1])
         => UNCHANGED <<posB, hitsB, stB, outB>>

\* C6: in both variants an input with a malformed non-blank line never
\* produces a hit count and ends in the error outcome, wherever the line
\* stands; a blank line changes neither position nor hit count.
C6_MalformedIsFatal == []C6_Fatal /\ [][C6_BlankSkipped]_vars

\* a hit was counted before the malformed third line, and is never printed
C6_Witness ==
    /\ Len(input) = 3
    /\ strip(input[1]) = <<"R", "5", "0">>
    /\ IsBlank(input[2])
    /\ IsMalformed(input[3])
    /\ stA = "raised" /\ hitsA = 1 /\ outA = <<>>
    /\ stB = "raised" /\ hitsB = 1 /\ outB = <<>>

----------------------------------------------------------------------------
(* C7 *)

\* C7: every command applied to the dial, in either variant, has a
\* magnitude that is present and non-negative.
C7_MagnitudeNonNegative ==
    \A i \in Commands(DoneA) \cup Commands(DoneB) :
        /\ Tail(strip(input[i])) # <<>>
        /\ Magnitude(input[i]) >= 0

----------------------------------------------------------------------------
(* C10 *)

AllAtLeast(n, m) == \A i \in Commands(n) : Magnitude(input[i]) >= m

\* C10 as claimed, on inputs whose magnitudes are all non-negative: after
\* every prefix the two variants are at the same position and the crossing
\* count is at least the landing count, commands of magnitude 0 included.
C10_CrossingAtLeastLanding ==
    idxA = idxB /\ stA = stB /\ AllAtLeast(DoneA, 0)
        => posA = posB /\ hitsB >= hitsA

C10_Prefix ==
    idxA = idxB /\ stA = stB
        => /\ posA = posB
           /\ AllAtLeast(DoneA, 1) => hitsB >= hitsA

C10_Step ==
    /\ idxB' = idxB + 1
    /\ stB' = "running"
    /\ ~IsBlank(input[idxB + 1])
    /\ Magnitude(input[idxB + 1]) >= 1
    /\ posB' = 0
    => hitsB' >= hitsB + 1

\* C10 amended: after every prefix the two variants are at the same
\* position; a command of magnitude >= 1 that ends on 0 adds at least 1 to
\* the crossing count; and while every applied command has magnitude >= 1
\* the crossing count is at least the landing count.
C10_CrossingAtLeastLandingPositive == []C10_Prefix /\ [][C10_Step]_vars

\* R150 from 50: one landing, two crossings
C10_Witness ==
    /\ Len(input) >= 1
    /\ strip(input[1]) = <<"R", "1", "5", "0">>
    /\ idxA = 1 /\ idxB = 1
    /\ posA = 0 /\ posB = 0 /\ hitsA = 1 /\ hitsB = 2

----------------------------------------------------------------------------
(* Vocabulary of the scanner properties *)

\* every seed of one to three digits written twice
Doubled ==
    UNION { { s * (10 ^ k + 1) : s \in (10 ^ (k - 1))..(10 ^ k - 1) } : k \in 1..3 }

InSomeRange(n) ==
    \E i \in 1..Len(tokens) : tokens[i][1] <= n /\ n <= tokens[i][2]

\* the decimal representation, most significant digit first
RECURSIVE Decimal(_)
Decimal(n) == IF n < 10 THEN <<n>> ELSE Append(Decimal(n \div 10), n % 10)

\* d is a chunk of length c written Len(d)/c >= 2 times
IsRepetition(d) ==
    \E c \in 1..(Len(d) - 1) :
        /\ Len(d) % c = 0
        /\ \A i \in 1..(Len(d) - c) : d[i] = d[i + c]

Repeating(start, end) == { v \in start..end : IsRepetition(Decimal(v)) }

RECURSIVE RepeatingTotal(_)
RepeatingTotal(n) ==
    IF n = 0 THEN 0
    ELSE RepeatingTotal(n - 1) + SetSum(Repeating(tokens[n][1], tokens[n][2]))

----------------------------------------------------------------------------
(* C4 *)

\* C4: the seed-expansion scanner prints the sum, each value taken once, of
\* all doubled numbers that lie in at least one range, and prints nothing
\* before it returns.
C4_SeedExpansionTotal ==
    /\ pc1 = "returned" => out1 = <<SetSum({ n \in Doubled : InSomeRange(n) })>>
    /\ pc1 # "returned" => out1 = <<>>

\* 11-99 and 95-115 overlap at 99, which is added once
C4_Witness ==
    /\ tokens = << <<11, 99>>, <<95, 115>> >>
    /\ pc1 = "returned"
    /\ out1 = <<495>>

----------------------------------------------------------------------------
(* C5 *)

C5_Examples ==
    /\ value \in {1212, 123123} /\ verdict # "pending" => verdict = "invalid"
    /\ (value = 1213 \/ value \in 1..9) /\ verdict # "pending" => verdict = "valid"

\* C5: is_invalid_id(value) holds exactly when the decimal representation
\* of value is a shorter chunk written two or more times, and the
\* repeated-pattern scanner prints the sum over the ranges of the values of
\* each range for which it holds.
C5_RepeatedPattern ==
    /\ verdict # "pending" =>
         (verdict = "invalid" <=> IsRepetition(Decimal(value)))
    /\ C5_Examples
    /\ pc2 = "scan" => total2 = RepeatingTotal(rangeIdx)
    /\ pc2 = "returned" => out2 = <<RepeatingTotal(Len(tokens))>>

\* 1111 matches chunk lengths 1 and 2 and is added once for each of the two
\* ranges that hold it
C5_Witness ==
    /\ tokens = << <<1105, 1111>>, <<1105, 1111>> >>
    /\ pc2 = "returned"
    /\ out2 = <<2222>>

----------------------------------------------------------------------------
(* C8 *)

\* has_repeated_pattern_len with the seed taken from the final chunk
TrailingSeedPattern(v, total_len, chunk_len) ==
    /\ total_len % chunk_len = 0
    /\ total_len \div chunk_len >= 2
    /\ repeat_value(v % (10 ^ chunk_len), 10 ^ chunk_len,
                    total_len \div chunk_len) = v

\* C8: for every value and every chunk length up to half its digit count,
\* has_repeated_pattern_len gives the same answer whether the seed is the
\* leading chunk (as in the code) or the final chunk.
C8_SeedChoiceEquivalent ==
    LET L == Len(Decimal(value))
    IN  \A c \in 1..(L \div 2) :
            has_repeated_pattern_len(value, L, c) <=> TrailingSeedPattern(value, L, c)

\* 111 repeats a one-digit chunk three times
C8_Witness ==
    /\ value = 111
    /\ verdict = "invalid"
    /\ TrailingSeedPattern(111, 3, 1)

----------------------------------------------------------------------------
(* C9 *)

\* C9: every candidate of the seed-expansion scanner is invalid for the
\* repeated-pattern scanner, and on the same input the seed-expansion total
\* is at most the repeated-pattern total.
C9_Nested ==
    /\ pc1 = "scan" => is_invalid_id(invalid_from_seed(seed))
    /\ value \in Doubled /\ verdict # "pending" => verdict = "invalid"
    /\ pc1 = "returned" /\ pc2 = "returned" => out1[1] <= out2[1]

\* 95-115 holds 99 for both scanners and 111 for the second only
C9_Witness ==
    /\ tokens = << <<95, 115>> >>
    /\ pc1 = "returned" /\ out1 = <<99>>
    /\ pc2 = "returned" /\ out2 = <<210>>

====
